---------------------------- MODULE Spec2Model ----------------------------
(***************************************************************************)
(* A model of src/__main__.py: the LinkedIn profile lookup function.       *)
(* Python strings are TLA+ strings; a character is a string of length 1.   *)
(* None is the value NONE.  A JSON/Python value that may be None, an       *)
(* integer or a string is a record [kind, v]; an integer is held as its    *)
(* decimal digits.                                                         *)
(***************************************************************************)
EXTENDS Integers, Sequences, FiniteSets, TLC

VARIABLES pc, params, env, provider, query, http_gets, reply, response, arg, ret

vars == <<pc, params, env, provider, query, http_gets, reply, response, arg, ret>>

(***************************************************************************)
(* Bounds of the model.                                                    *)
(***************************************************************************)
MaxNameLen == 2
MaxTitleLen == 3
MaxSlugLen == 1
MaxResults == 2
MaxFilterResults == 3

(***************************************************************************)
(* Python values.                                                          *)
(***************************************************************************)
NONE == [kind |-> "none"]

Str(s) == [kind |-> "str", v |-> s]

IntVal(n) == [kind |-> "int", v |-> ToString(n)]

\* isinstance(x, str)
IsStr(x) == x.kind = "str"

\* bool(x): None, 0 and "" are falsy
Truthy(x) ==
    CASE x.kind = "none" -> FALSE
      [] x.kind = "int" -> x.v # "0"
      [] x.kind = "str" -> Len(x.v) > 0

(***************************************************************************)
(* Characters and the str / re primitives the code uses.                   *)
(***************************************************************************)
Min(S) == CHOOSE i \in S : \A j \in S : i <= j

Max(S) == CHOOSE i \in S : \A j \in S : i >= j

Chr(s, i) == SubSeq(s, i, i)

AsciiUpper == "ABCDEFGHIJKLMNOPQRSTUVWXYZ"

AsciiLower == "abcdefghijklmnopqrstuvwxyz"

Digits == "0123456789"

Chars(s) == {Chr(s, i) : i \in 1..Len(s)}

\* the characters matched by \s and removed by str.strip() that the model uses
Whitespace == {" ", "\t"}

\* the letter outside ASCII that the model uses (halfwidth katakana TA: it has
\* no case, so str.lower() leaves it alone)
NonAsciiLetters == "ﾀ"

IndexIn(s, c) == CHOOSE i \in 1..Len(s) : Chr(s, i) = c

\* str.lower() on one character
LowerChar(c) ==
    IF c \in Chars(AsciiUpper) THEN Chr(AsciiLower, IndexIn(AsciiUpper, c))
    ELSE c

\* the concatenation of the strings ps[lo], ..., ps[hi]
RECURSIVE CatRange(_, _, _)
CatRange(ps, lo, hi) ==
    IF lo > hi THEN ""
    ELSE IF lo = hi THEN ps[lo]
    ELSE LET mid == (lo + hi) \div 2
         IN CatRange(ps, lo, mid) \o CatRange(ps, mid + 1, hi)

\* "".join(ps)
Cat(ps) == CatRange(ps, 1, Len(ps))

\* the positions of s whose character is not in the set cs
Outside(s, cs) == {i \in 1..Len(s) : Chr(s, i) \notin cs}

\* s with the characters of cs removed from its front / from its end
LStripChars(s, cs) ==
    IF Outside(s, cs) = {} THEN "" ELSE SubSeq(s, Min(Outside(s, cs)), Len(s))

RStripChars(s, cs) ==
    IF Outside(s, cs) = {} THEN "" ELSE SubSeq(s, 1, Max(Outside(s, cs)))

\* str.lower()
lower(s) == Cat([i \in 1..Len(s) |-> LowerChar(Chr(s, i))])

\* str.strip()
strip(s) == RStripChars(LStripChars(s, Whitespace), Whitespace)

\* re.sub(r"\s+", " ", s): the first character of a whitespace run becomes " ",
\* the rest of the run goes
collapse_ws(s) ==
    Cat([i \in 1..Len(s) |->
           IF Chr(s, i) \notin Whitespace THEN Chr(s, i)
           ELSE IF i > 1 /\ Chr(s, i - 1) \in Whitespace THEN "" ELSE " "])

\* a in b  (substring test)
IsSubstring(a, b) ==
    \E i \in 0..(Len(b) - Len(a)) : SubSeq(b, i + 1, i + Len(a)) = a

\* s.find(t, from): the least 0-based index >= from where t occurs, or -1
Occurrences(s, t, from) ==
    {i \in from..(Len(s) - Len(t)) : SubSeq(s, i + 1, i + Len(t)) = t}

Find(s, t, from) ==
    IF Occurrences(s, t, from) = {} THEN -1 ELSE Min(Occurrences(s, t, from))

\* " ".join(parts)
RECURSIVE join(_)
join(parts) ==
    IF parts = <<>> THEN ""
    ELSE IF Len(parts) = 1 THEN parts[1]
    ELSE parts[1] \o " " \o join(Tail(parts))

(***************************************************************************)
(* Filtering: _normalize_text and title_contains_full_name.                *)
(***************************************************************************)
\* re.sub(r"[^a-z0-9\s]", " ", s)
sub_non_alnum(s) ==
    Cat([i \in 1..Len(s) |->
           IF Chr(s, i) \in Chars(AsciiLower) \cup Chars(Digits) \cup Whitespace
           THEN Chr(s, i) ELSE " "])

_normalize_text(s) == strip(collapse_ws(sub_non_alnum(lower(s))))

title_contains_full_name(title, full_name) ==
    IsSubstring(_normalize_text(full_name), _normalize_text(title))

(***************************************************************************)
(* urllib.parse.urlparse and urlunparse, as the code calls them.           *)
(***************************************************************************)
\* characters urlsplit strips from the front of a URL (those the model uses)
C0ControlOrSpace == {" ", "\t", "\n"}

\* characters urlsplit removes from anywhere in a URL
UnsafeUrlBytes == {"\t", "\n"}

SchemeChars == Chars(AsciiLower) \cup Chars(AsciiUpper) \cup Chars(Digits) \cup {"+", "-", "."}

\* the members of urllib.parse.uses_params
UsesParams ==
    {"", "ftp", "hdl", "prospero", "http", "imap", "https", "shttp", "rtsp",
     "rtsps", "rtspu", "sip", "sips", "mms", "sftp", "tel"}

\* bracketed hosts urlsplit's _check_bracketed_host accepts (those the model uses)
ValidBracketedHosts == {"::1"}

\* url.lstrip(_WHATWG_C0_CONTROL_OR_SPACE)
lstrip_c0(s) == LStripChars(s, C0ControlOrSpace)

\* url.replace(b, "") for each b of _UNSAFE_URL_BYTES_TO_REMOVE
remove_unsafe(s) ==
    Cat([i \in 1..Len(s) |-> IF Chr(s, i) \in UnsafeUrlBytes THEN "" ELSE Chr(s, i)])

\* s[i:] and s[:i] for a 0-based index i
From(s, i) == IF i >= Len(s) THEN "" ELSE SubSeq(s, i + 1, Len(s))

UpTo(s, i) == IF i >= Len(s) THEN s ELSE SubSeq(s, 1, i)

\* s.rfind(t): the greatest 0-based index where t occurs, or -1
RFind(s, t) ==
    IF Occurrences(s, t, 0) = {} THEN -1 ELSE Max(Occurrences(s, t, 0))

\* _splitnetloc(url, 2): the netloc ends at the first of / ? #
NetlocEnd(ends, n) == IF ends = {} THEN n ELSE Min(ends)

SplitNetlocAt(url, delim) == [netloc |-> SubSeq(url, 3, delim), rest |-> From(url, delim)]

SplitNetloc(url) ==
    SplitNetlocAt(url, NetlocEnd({Find(url, c, 2) : c \in {"/", "?", "#"}} \ {-1}, Len(url)))

\* netloc.partition('[')[2].partition(']')[0]
BracketedHostFrom(s) == IF Find(s, "]", 0) < 0 THEN s ELSE UpTo(s, Find(s, "]", 0))

BracketedHost(netloc) == BracketedHostFrom(From(netloc, Find(netloc, "[", 0) + 1))

\* the netlocs for which urlsplit raises ValueError
InvalidNetloc(netloc) ==
    \/ IsSubstring("[", netloc) /\ ~IsSubstring("]", netloc)
    \/ IsSubstring("]", netloc) /\ ~IsSubstring("[", netloc)
    \/ /\ IsSubstring("[", netloc) /\ IsSubstring("]", netloc)
       /\ BracketedHost(netloc) \notin ValidBracketedHosts

\* url.split('?', 1) at the 0-based index q of the first '?', -1 if there is none
SplitQueryAt(scheme, netloc, url, fragment, q) ==
    [ok |-> TRUE, scheme |-> scheme, netloc |-> netloc,
     path |-> IF q >= 0 THEN UpTo(url, q) ELSE url,
     query |-> IF q >= 0 THEN From(url, q + 1) ELSE "",
     fragment |-> fragment]

SplitQuery(scheme, netloc, url, fragment) ==
    SplitQueryAt(scheme, netloc, url, fragment, Find(url, "?", 0))

\* url.split('#', 1) at the 0-based index h of the first '#', -1 if there is none
SplitFragmentAt(scheme, netloc, url, h) ==
    IF h >= 0 THEN SplitQuery(scheme, netloc, UpTo(url, h), From(url, h + 1))
    ELSE SplitQuery(scheme, netloc, url, "")

\* urlsplit from the netloc on: nl is [netloc, rest]
AfterNetloc(scheme, nl) ==
    IF InvalidNetloc(nl.netloc) THEN [ok |-> FALSE]
    ELSE SplitFragmentAt(scheme, nl.netloc, nl.rest, Find(nl.rest, "#", 0))

\* urlsplit from the scheme on
AfterScheme(scheme, url) ==
    IF UpTo(url, 2) = "//" THEN AfterNetloc(scheme, SplitNetloc(url))
    ELSE AfterNetloc(scheme, [netloc |-> "", rest |-> url])

\* the scheme test of urlsplit, i the 0-based index of the first ':'
HasScheme(url, i) ==
    /\ i > 0
    /\ Chr(url, 1) \in Chars(AsciiLower) \cup Chars(AsciiUpper)
    /\ Chars(UpTo(url, i)) \subseteq SchemeChars

SplitSchemeAt(url, i) ==
    IF HasScheme(url, i) THEN AfterScheme(lower(UpTo(url, i)), From(url, i + 1))
    ELSE AfterScheme("", url)

SplitScheme(url) == SplitSchemeAt(url, Find(url, ":", 0))

\* urlsplit(url): ok = FALSE stands for the ValueError it raises
urlsplit(url) == SplitScheme(remove_unsafe(lstrip_c0(url)))

\* _splitparams(url)
SplitParamsAt(url, i) ==
    IF i < 0 THEN [path |-> url, params |-> ""]
    ELSE [path |-> UpTo(url, i), params |-> From(url, i + 1)]

SplitParams(url) ==
    IF IsSubstring("/", url) THEN SplitParamsAt(url, Find(url, ";", RFind(url, "/")))
    ELSE SplitParamsAt(url, Find(url, ";", 0))

\* urlparse after urlsplit has returned r
WithParams(r, sp) ==
    [ok |-> TRUE, scheme |-> r.scheme, netloc |-> r.netloc, path |-> sp.path,
     params |-> sp.params, query |-> r.query, fragment |-> r.fragment]

ParseSplit(r) ==
    IF ~r.ok THEN r
    ELSE IF r.scheme \in UsesParams /\ IsSubstring(";", r.path)
         THEN WithParams(r, SplitParams(r.path))
         ELSE WithParams(r, [path |-> r.path, params |-> ""])

urlparse(url) == ParseSplit(urlsplit(url))

\* urlunparse((scheme, netloc, path, "", "", "")) with a non-empty netloc
urlunparse(scheme, netloc, path) ==
    (IF scheme # "" THEN scheme \o ":" ELSE "")
    \o "//" \o netloc
    \o (IF path # "" /\ Chr(path, 1) # "/" THEN "/" \o path ELSE path)

(***************************************************************************)
(* normalize_linkedin_profile_url.                                         *)
(***************************************************************************)
\* _PROFILE_RE.match(path): ^/(in|pub)/[^/]+/?$ with re.IGNORECASE
\* s without one "/" at its end, if it has one
DropOneSlash(s) ==
    IF s # "" /\ Chr(s, Len(s)) = "/" THEN UpTo(s, Len(s) - 1) ELSE s

\* j is the 0-based index of the second "/" of path, -1 if there is none
ProfileMatchAt(path, j) ==
    /\ path # "" /\ Chr(path, 1) = "/"
    /\ j > 0
    /\ lower(SubSeq(path, 2, j)) \in {"in", "pub"}
    /\ DropOneSlash(From(path, j + 1)) # ""
    /\ ~IsSubstring("/", DropOneSlash(From(path, j + 1)))

_PROFILE_RE(path) == ProfileMatchAt(path, Find(path, "/", 1))

\* re.sub(r"/+$", "", path)
strip_trailing_slashes(path) == RStripChars(path, {"/"})

\* a variant of canonical_path that appends "/" without stripping the trailing slashes
canonical_path_appending(path) == path \o "/"

\* the path the canonical URL is rebuilt with
canonical_path(path) == strip_trailing_slashes(path) \o "/"

\* the function after urlparse has returned u (ok = FALSE: it raised)
NormalizeParsed(u) ==
    IF ~u.ok THEN NONE
    ELSE IF ~IsSubstring("linkedin.com", u.netloc) THEN NONE
    ELSE IF ~_PROFILE_RE(u.path) THEN NONE
    ELSE Str(urlunparse("https", "www.linkedin.com", canonical_path(u.path)))

normalize_linkedin_profile_url(url) == NormalizeParsed(urlparse(url))

(***************************************************************************)
(* find_linkedin_profile_urls: the loop over the results and the           *)
(* order-preserving deduplication.  A result is [title, link].             *)
(***************************************************************************)
\* what one result adds to scored_urls: its normalized link, or nothing
Accepted(full_name, r, url) ==
    IF ~title_contains_full_name(r.title, full_name) THEN <<>>
    ELSE IF ~Truthy(url) THEN <<>>
    ELSE <<url.v>>

RECURSIVE scored_urls(_, _)
scored_urls(full_name, results) ==
    IF results = <<>> THEN <<>>
    ELSE Accepted(full_name, Head(results), normalize_linkedin_profile_url(Head(results).link))
         \o scored_urls(full_name, Tail(results))

\* a variant of dedup_loop that never adds to seen
RECURSIVE dedup_loop_forgetful(_, _, _)
dedup_loop_forgetful(urls, seen, ordered) ==
    IF urls = <<>> THEN ordered
    ELSE IF Head(urls) \notin seen
         THEN dedup_loop_forgetful(Tail(urls), seen, Append(ordered, Head(urls)))
         ELSE dedup_loop_forgetful(Tail(urls), seen, ordered)

RECURSIVE dedup_loop(_, _, _)
dedup_loop(urls, seen, ordered) ==
    IF urls = <<>> THEN ordered
    ELSE IF Head(urls) \notin seen
         THEN dedup_loop(Tail(urls), seen \cup {Head(urls)}, Append(ordered, Head(urls)))
         ELSE dedup_loop(Tail(urls), seen, ordered)

\* what find_linkedin_profile_urls returns once search has returned results
filter_results(full_name, results) == dedup_loop(scored_urls(full_name, results), {}, <<>>)

(***************************************************************************)
(* build_query.  A call returns [ok |-> TRUE, v |-> value] or raises:      *)
(* [ok |-> FALSE, exc |-> str(exception)].                                 *)
(***************************************************************************)
Return(v) == [ok |-> TRUE, v |-> v]

Raise(e) == [ok |-> FALSE, exc |-> e]

\* x.strip() on a truthy value that is not a str
NoStrip == "AttributeError: 'int' object has no attribute 'strip'"

Quote(s) == "\"" \o s \o "\""

\* the list comprehension of _quoted_optional_terms over the given fields
\* one more field t in front of the terms rest
QuotedTerm(t, rest) ==
    IF ~Truthy(t) THEN rest
    ELSE IF ~IsStr(t) THEN Raise(NoStrip)
    ELSE IF ~rest.ok THEN rest
    ELSE IF strip(t.v) = "" THEN rest
    ELSE Return(<<Quote(strip(t.v))>> \o rest.v)

RECURSIVE quoted_terms(_)
quoted_terms(fields) ==
    IF fields = <<>> THEN Return(<<>>)
    ELSE QuotedTerm(Head(fields), quoted_terms(Tail(fields)))

\* a variant of _quoted_optional_terms that takes the fields in another order
_quoted_optional_terms_reordered(p) ==
    quoted_terms(<<p.title_or_role, p.company_or_university, p.location>>)

_quoted_optional_terms(p) ==
    quoted_terms(<<p.company_or_university, p.title_or_role, p.location>>)

SiteTerm == "site:linkedin.com/in"

ExclusionTerms ==
    <<"-inurl:/company/", "-inurl:/posts/", "-inurl:/jobs/", "-inurl:/pulse/",
      "-inurl:/learning/", "-inurl:/groups/", "-inurl:/directory/", "-inurl:/school/">>

\* the final re.sub(r"\s+", " ", " ".join(parts)).strip()
JoinParts(parts) == strip(collapse_ws(join(parts)))

\* build_query once _quoted_optional_terms has returned opt or raised
BuildParts(p, opt) ==
    IF ~opt.ok THEN opt
    ELSE IF ~Truthy(p.email)
         THEN Return(JoinParts(<<SiteTerm, Quote(strip(p.full_name.v))>> \o opt.v
                               \o ExclusionTerms))
    ELSE IF ~IsStr(p.email) THEN Raise(NoStrip)
    ELSE Return(JoinParts(<<SiteTerm, Quote(strip(p.full_name.v))>> \o opt.v
                          \o ExclusionTerms \o <<strip(p.email.v)>>))

build_query(p) == BuildParts(p, _quoted_optional_terms(p))

(***************************************************************************)
(* GoogleCustomSearchProvider.                                             *)
(***************************************************************************)
CredentialsError == "GOOGLE_API_KEY and GOOGLE_CX must be set"

\* a variant of __init__ that checks the API key only
GoogleCustomSearchProvider_key_only(e) ==
    IF ~Truthy(e.GOOGLE_API_KEY) THEN [ok |-> FALSE, exc |-> CredentialsError]
    ELSE [ok |-> TRUE, v |-> [api_key |-> e.GOOGLE_API_KEY.v,
                              cx |-> IF Truthy(e.GOOGLE_CX) THEN e.GOOGLE_CX.v ELSE ""]]

\* __init__: e is the environment, a variable being NONE when unset
GoogleCustomSearchProvider(e) ==
    IF ~Truthy(e.GOOGLE_API_KEY) \/ ~Truthy(e.GOOGLE_CX) THEN Raise(CredentialsError)
    ELSE Return([api_key |-> e.GOOGLE_API_KEY.v, cx |-> e.GOOGLE_CX.v])

\* str(it.get(key, "")): an absent key gives "", a JSON null gives "None"
ItemField(v) ==
    CASE v.kind = "none" -> ""
      [] v.kind = "null" -> "None"
      [] v.kind = "str" -> v.v

RECURSIVE to_results(_)
to_results(items) ==
    IF items = <<>> THEN <<>>
    ELSE <<[title |-> ItemField(Head(items).title), link |-> ItemField(Head(items).link)]>>
         \o to_results(Tail(items))

\* a variant of search_result without raise_for_status
search_result_unchecked(r) ==
    IF r.kind = "exception" THEN [ok |-> FALSE, exc |-> r.exc]
    ELSE IF r.body.kind = "not_json" THEN [ok |-> FALSE, exc |-> "JSONDecodeError"]
    ELSE IF r.body.items.kind \in {"none", "null"} THEN [ok |-> TRUE, v |-> <<>>]
    ELSE [ok |-> TRUE, v |-> to_results(r.body.items.v)]

\* the rest of search once session.get has answered with r:
\* raise_for_status, resp.json(), data.get("items", []) or []
search_result(r) ==
    IF r.kind = "exception" THEN Raise(r.exc)
    ELSE IF r.status >= 400 /\ r.status < 600 THEN Raise("HTTPError: " \o r.reason)
    ELSE IF r.body.kind = "not_json" THEN Raise("JSONDecodeError")
    ELSE IF r.body.items.kind \in {"none", "null"} THEN Return(<<>>)
    ELSE Return(to_results(r.body.items.v))

(***************************************************************************)
(* The inputs the model draws from.                                        *)
(***************************************************************************)
RECURSIVE StringsOfLen(_, _)
StringsOfLen(cs, n) ==
    IF n = 0 THEN {""} ELSE {c \o t : c \in cs, t \in StringsOfLen(cs, n - 1)}

StringsUpTo(cs, n) == UNION {StringsOfLen(cs, k) : k \in 0..n}

RECURSIVE SeqsOfLen(_, _)
SeqsOfLen(S, n) ==
    IF n = 0 THEN {<<>>} ELSE {<<x>> \o t : x \in S, t \in SeqsOfLen(S, n - 1)}

SeqsUpTo(S, n) == UNION {SeqsOfLen(S, k) : k \in 0..n}

\* what params.get(key) can give: None (key missing), an int, a str
Params ==
    [full_name : {NONE, IntVal(0), IntVal(7), Str(""), Str(" "), Str("Al B")},
     email : {NONE, IntVal(1), Str("al@b.io")},
     location : {NONE, IntVal(5)},
     title_or_role : {NONE},
     company_or_university : {NONE, Str("IBM")}]

\* os.environ: a variable is unset (NONE), empty or set
Environments ==
    [GOOGLE_API_KEY : {NONE, Str(""), Str("key")}, GOOGLE_CX : {NONE, Str(""), Str("cx")}]

\* the items of a search answer: a key of an item may be absent (NONE)
Items ==
    [title : {NONE, Str("Al B - CTO | LinkedIn"), Str("Bo C | LinkedIn")},
     link : {NONE,
             Str("https://il.linkedin.com/in/al-b?x=1"),
             Str("http://www.linkedin.com/in/al-b/"),
             Str("https://www.linkedin.com/pub/al"),
             Str("https://www.linkedin.com/company/al"),
             Str("https://[linkedin.com/in/al")}]

JsonBodies ==
    {[kind |-> "not_json"],
     [kind |-> "json", items |-> NONE],
     [kind |-> "json", items |-> [kind |-> "null"]]}
    \cup {[kind |-> "json", items |-> [kind |-> "list", v |-> its]] :
            its \in SeqsUpTo(Items, MaxResults)}

\* what session.get can do: raise, or return a response with a status and a body
Replies ==
    {[kind |-> "exception", exc |-> e] : e \in {"ConnectionError", "ReadTimeout"}}
    \cup {[kind |-> "response", status |-> 200, reason |-> "OK", body |-> b] : b \in JsonBodies}
    \cup {[kind |-> "response", status |-> st[1], reason |-> st[2], body |-> b] :
            st \in {<<304, "Not Modified">>, <<403, "Forbidden">>, <<503, "Service Unavailable">>},
            b \in {[kind |-> "not_json"], [kind |-> "json", items |-> NONE]}}

(***************************************************************************)
(* main(params), step by step.                                             *)
(***************************************************************************)
ErrorResponse(code, body) == [statusCode |-> code, body |-> body]

\* a variant of SuccessResponse that reports an empty list as an error
SuccessResponse_or_404(urls) ==
    IF urls = <<>> THEN [statusCode |-> 404, body |-> "not found"]
    ELSE [linkedin_profile_url |-> Str(urls[1]), all_urls |-> urls]

SuccessResponse(urls) ==
    [linkedin_profile_url |-> IF urls # <<>> THEN Str(urls[1]) ELSE NONE, all_urls |-> urls]

\* params has a get method
IsMapping(x) == x # NONE

\* lines 185-198: the check of full_name.  It runs outside the try statement:
\* params.get on a value with no get raises out of main (pc = "crashed").
Validate ==
    /\ pc = "start"
    /\ IF ~IsMapping(params)
       THEN /\ response' = response
            /\ pc' = "crashed"
       ELSE IF ~Truthy(params.full_name) \/ ~IsStr(params.full_name)
       THEN /\ response' = ErrorResponse(400, "full_name is required")
            /\ pc' = "done"
       ELSE /\ response' = response
            /\ pc' = "validated"
    /\ UNCHANGED <<params, env, provider, query, http_gets, reply, arg, ret>>

\* lines 210-214: except Exception as e: return {"statusCode": 500, "body": str(e)}
Caught(e) == [pc |-> "done", response |-> ErrorResponse(500, e)]

\* line 201: search_provider = GoogleCustomSearchProvider()
Construct ==
    /\ pc = "validated"
    /\ IF GoogleCustomSearchProvider(env).ok
       THEN /\ provider' = GoogleCustomSearchProvider(env).v
            /\ pc' = "constructed"
            /\ response' = response
       ELSE /\ provider' = provider
            /\ pc' = Caught(GoogleCustomSearchProvider(env).exc).pc
            /\ response' = Caught(GoogleCustomSearchProvider(env).exc).response
    /\ UNCHANGED <<params, env, query, http_gets, reply, arg, ret>>

\* line 136: query = build_query(p)
BuildQuery ==
    /\ pc = "constructed"
    /\ IF build_query(params).ok
       THEN /\ query' = Str(build_query(params).v)
            /\ pc' = "queried"
            /\ response' = response
       ELSE /\ query' = query
            /\ pc' = Caught(build_query(params).exc).pc
            /\ response' = Caught(build_query(params).exc).response
    /\ UNCHANGED <<params, env, provider, http_gets, reply, arg, ret>>

\* line 53: resp = self.session.get(url, params=params, timeout=20).  The answer
\* of the search API is any member of Replies.
HttpGet ==
    /\ pc = "queried"
    /\ http_gets' = http_gets + 1
    /\ \E r \in Replies : reply' = r
    /\ pc' = "replied"
    /\ UNCHANGED <<params, env, provider, query, response, arg, ret>>

\* lines 54-66, 139-159 and 204-214: the rest of search, the filter, the response.
\* ret keeps what search returned or raised.
HandleReply ==
    /\ pc = "replied"
    /\ ret' = search_result(reply)
    /\ IF ret'.ok
       THEN /\ response' = SuccessResponse(filter_results(params.full_name.v, ret'.v))
            /\ pc' = "done"
       ELSE /\ response' = Caught(ret'.exc).response
            /\ pc' = Caught(ret'.exc).pc
    /\ UNCHANGED <<params, env, provider, query, http_gets, reply, arg>>

Init ==
    /\ pc = "start"
    /\ params \in Params \cup {NONE}
    /\ env \in Environments
    /\ provider = NONE /\ query = NONE /\ http_gets = 0 /\ reply = NONE
    /\ response = NONE /\ arg = NONE /\ ret = NONE

Next == Validate \/ Construct \/ BuildQuery \/ HttpGet \/ HandleReply

Spec == Init /\ [][Next]_vars

(***************************************************************************)
(* The pure functions on their own: arg is the input, ret the value        *)
(* returned.  The variables of main stay idle.                             *)
(***************************************************************************)
mainvars == <<params, env, provider, query, http_gets, reply, response>>

Idle ==
    /\ params = NONE /\ env = NONE /\ provider = NONE /\ query = NONE
    /\ http_gets = 0 /\ reply = NONE /\ response = NONE

\* ---- normalize_linkedin_profile_url on one link, then on its own output ----
SlugChars == {"a", "Z", ";"}

LinkSchemes == {"https://", "http://", "HTTPS://", "git://", "//", ""}

LinkNetlocs ==
    {"www.linkedin.com", "il.linkedin.com", "linkedin.com", "www.LinkedIn.com",
     "example.org", "linkedin.com@example.org", "[linkedin.com"}

LinkDirs == {"/in/", "/IN/", "/pub/", "/company/", "/posts/", "/jobs/", "/in/x/"}

LinkTails == {"", "/", "//"}

LinkSuffixes == {"", "?x=1", "#f"}

Links ==
    {sc \o nl \o d \o sl \o t \o sf :
        sc \in LinkSchemes, nl \in LinkNetlocs, d \in LinkDirs,
        sl \in StringsUpTo(SlugChars, MaxSlugLen), t \in LinkTails, sf \in LinkSuffixes}

UrlInit == Idle /\ pc = "call" /\ arg \in Links /\ ret = NONE

Normalize ==
    /\ pc = "call"
    /\ ret' = normalize_linkedin_profile_url(arg)
    /\ pc' = "return"
    /\ UNCHANGED <<mainvars, arg>>

\* the URL returned is normalized again
Renormalize ==
    /\ pc = "return"
    /\ Truthy(ret)
    /\ arg' = ret.v
    /\ ret' = normalize_linkedin_profile_url(ret.v)
    /\ pc' = "again"
    /\ UNCHANGED mainvars

UrlNext == Normalize \/ Renormalize

SpecUrl == UrlInit /\ [][UrlNext]_vars

\* ---- the name match of find_linkedin_profile_urls on one result ----
TextChars == {"a", "B", "1", "-", " "} \cup Chars(NonAsciiLetters)

ProfileLink == "https://www.linkedin.com/in/a/"

TextInit ==
    /\ Idle /\ pc = "call" /\ ret = NONE
    /\ arg \in [full_name : StringsUpTo(TextChars, MaxNameLen) \ {""},
                title : StringsUpTo(TextChars, MaxTitleLen)]

MatchTitle ==
    /\ pc = "call"
    /\ ret' = filter_results(arg.full_name, <<[title |-> arg.title, link |-> ProfileLink]>>)
    /\ pc' = "return"
    /\ UNCHANGED <<mainvars, arg>>

TextNext == MatchTitle

SpecText == TextInit /\ [][TextNext]_vars

\* ---- find_linkedin_profile_urls on the results search returned ----
FilterName == "Al B"

FilterResults ==
    [title : {"Al B | LinkedIn", "Bo C | LinkedIn"},
     link : {"https://il.linkedin.com/in/al-b?x=1",
             "http://www.linkedin.com/in/al-b/",
             "https://www.linkedin.com/pub/al-b",
             "https://www.linkedin.com/company/al-b",
             "https://[linkedin.com/in/al-b"}]

FilterInit ==
    /\ Idle /\ pc = "call" /\ ret = NONE
    /\ arg \in [full_name : {FilterName}, results : SeqsUpTo(FilterResults, MaxFilterResults)]

Filter ==
    /\ pc = "call"
    /\ ret' = filter_results(arg.full_name, arg.results)
    /\ pc' = "return"
    /\ UNCHANGED <<mainvars, arg>>

FilterNext == Filter

SpecFilter == FilterInit /\ [][FilterNext]_vars

\* ---- build_query on one PersonInput ----
\* the values of an optional str field built around the word w
FieldValues(w) ==
    {NONE} \cup {Str(v) : v \in {"", " ", w, " " \o w \o " ", w \o "  " \o w, w \o "\t" \o w}}

PersonInputs ==
    [full_name : FieldValues("Al") \ {NONE, Str(""), Str(" ")},
     email : {NONE, Str(""), Str(" "), Str("al@b.io"), Str(" al@b.io ")},
     location : FieldValues("Haifa"),
     title_or_role : FieldValues("CTO"),
     company_or_university : FieldValues("IBM")]

QueryInit == Idle /\ pc = "call" /\ arg \in PersonInputs /\ ret = NONE

Query ==
    /\ pc = "call"
    /\ ret' = build_query(arg)
    /\ pc' = "return"
    /\ UNCHANGED <<mainvars, arg>>

QueryNext == Query

SpecQuery == QueryInit /\ [][QueryNext]_vars

(***************************************************************************)
(* Properties of main, checked under Spec.                                 *)
(***************************************************************************)
IsErrorResponse(r, code) ==
    /\ DOMAIN r = {"statusCode", "body"}
    /\ r.statusCode = code
    /\ r.body # ""

IsSuccessResponse(r) == DOMAIN r = {"linkedin_profile_url", "all_urls"}

\* full_name is missing, not a string, empty or blank
NameUnusable(v) == ~IsStr(v) \/ strip(v.v) = ""

\* main was called with a mapping whose full_name is as C1 says
UnusableName == IsMapping(params) /\ NameUnusable(params.full_name)

UsableName == IsMapping(params) /\ ~NameUnusable(params.full_name)

CredentialsMissing == ~Truthy(env.GOOGLE_API_KEY) \/ ~Truthy(env.GOOGLE_CX)

\* C1: whenever full_name is missing, not a string, empty or blank, main never
\* constructs the provider, never issues a GET, and returns the 400 response
\* "full_name is required".
C1_UnusableNameRejected ==
    UnusableName =>
        /\ provider = NONE
        /\ http_gets = 0
        /\ pc = "done" => response = ErrorResponse(400, "full_name is required")

\* C2: with a usable full_name and GOOGLE_API_KEY or GOOGLE_CX unset or empty, no
\* GET is ever issued and main returns a 500 response with an error body.
C2_MissingCredentials ==
    (UsableName /\ CredentialsMissing) =>
        /\ http_gets = 0
        /\ provider = NONE
        /\ pc \in {"start", "validated", "done"}
        /\ pc = "done" => IsErrorResponse(response, 500)

C2_Witness ==
    /\ pc = "done"
    /\ UsableName
    /\ Truthy(env.GOOGLE_API_KEY) /\ env.GOOGLE_CX = Str("")
    /\ response = ErrorResponse(500, CredentialsError)

\* the GET answered with a status in lo..hi
StatusIn(lo, hi) == reply.kind = "response" /\ reply.status >= lo /\ reply.status <= hi

\* the body of the answer is not JSON
Unparseable == reply.kind = "response" /\ reply.body.kind = "not_json"

\* what C3 asks of every state, for a given meaning of "the GET failed"
C3_Shape(failed) ==
    /\ http_gets <= 1
    /\ IsMapping(params) => pc # "crashed"
    /\ pc = "done" => IsSuccessResponse(response) \/ IsErrorResponse(response, 400)
                        \/ IsErrorResponse(response, 500)
    /\ (pc = "done" /\ http_gets = 1 /\ failed) =>
            /\ IsErrorResponse(response, 500)
            /\ reply.kind = "exception" => response.body = reply.exc

CanonicalPrefix == "https://www.linkedin.com"

\* the text of a segment: not empty, and free of / ? #
IsSlug(t) == t # "" /\ \A c \in {"/", "?", "#"} : ~IsSubstring(c, t)

\* u is https://www.linkedin.com/in/<slug>/ or https://www.linkedin.com/pub/<slug>/
IsCanonicalProfileUrl(u) ==
    \E d \in {"/in/", "/pub/"} :
        /\ UpTo(u, Len(CanonicalPrefix \o d)) = CanonicalPrefix \o d
        /\ Len(u) > Len(CanonicalPrefix \o d) + 1
        /\ Chr(u, Len(u)) = "/"
        /\ IsSlug(SubSeq(u, Len(CanonicalPrefix \o d) + 1, Len(u) - 1))

\* C5: every URL the function returns has the canonical shape: https,
\* www.linkedin.com, path /in/<slug>/ or /pub/<slug>/, no query, no fragment.
C5_CanonicalShape ==
    (pc \in {"return", "again"} /\ Truthy(ret)) => IsCanonicalProfileUrl(ret.v)

\* C8: normalizing a URL the function returned gives that URL again, and a URL
\* that is canonical already is returned unchanged.
C8_Idempotent ==
    /\ pc = "again" => ret = Str(arg)
    /\ (pc = "return" /\ IsCanonicalProfileUrl(arg)) => ret = Str(arg)

C8_Witness ==
    /\ pc = "again"
    /\ ret = Str("https://www.linkedin.com/pub/Z/")

\* urllib's hostname of a netloc: what follows the last "@", up to the first ":",
\* in lower case
AfterUserinfo(netloc) ==
    IF RFind(netloc, "@") < 0 THEN netloc ELSE From(netloc, RFind(netloc, "@") + 1)

BeforePort(hostinfo) ==
    IF Find(hostinfo, ":", 0) < 0 THEN hostinfo ELSE UpTo(hostinfo, Find(hostinfo, ":", 0))

Hostname(netloc) == lower(BeforePort(AfterUserinfo(netloc)))

\* the path is /in/<segment> or /pub/<segment>, in any letter case, with at most
\* one "/" after it
IsProfilePath(path) ==
    \E d \in {"/in/", "/pub/"} :
        /\ lower(UpTo(path, Len(d))) = d
        /\ IsSlug(DropOneSlash(From(path, Len(d))))

\* the links C9 says are rejected
C9_Rejectable(link) ==
    \/ ~urlparse(link).ok
    \/ ~IsSubstring("linkedin.com", Hostname(urlparse(link).netloc))
    \/ ~IsProfilePath(urlparse(link).path)

\* C9: a link that does not parse, whose host does not contain linkedin.com, or
\* whose path is not /in/<segment> or /pub/<segment> is given None.
C9_Rejected ==
    (pc = "return" /\ C9_Rejectable(arg)) => ret = NONE

(***************************************************************************)
(* Properties of find_linkedin_profile_urls, checked under SpecFilter.     *)
(***************************************************************************)
\* the elements of A whose value does not occur earlier in A, in the order of A
RECURSIVE FirstOccurrencesFrom(_, _)
FirstOccurrencesFrom(A, i) ==
    IF i > Len(A) THEN <<>>
    ELSE (IF \E j \in 1..(i - 1) : A[j] = A[i] THEN <<>> ELSE <<A[i]>>)
         \o FirstOccurrencesFrom(A, i + 1)

FirstOccurrences(A) == FirstOccurrencesFrom(A, 1)

NoDuplicates(A) == \A i, j \in 1..Len(A) : A[i] = A[j] => i = j

\* the normalized URL of each accepted result of the call, in the order of the results
AcceptedUrls == scored_urls(arg.full_name, arg.results)

\* C4: the list returned has no duplicate and is the normalized URLs of the
\* accepted results in provider order, each kept at its first occurrence only.
C4_DedupFirstOccurrence ==
    pc = "return" =>
        /\ NoDuplicates(ret)
        /\ ret = FirstOccurrences(AcceptedUrls)

\* accepted results normalizing to [A, B, A] give [A, B]
C4_Witness ==
    /\ pc = "return"
    /\ Len(AcceptedUrls) = 3
    /\ AcceptedUrls[1] = AcceptedUrls[3] /\ AcceptedUrls[1] # AcceptedUrls[2]
    /\ ret = <<AcceptedUrls[1], AcceptedUrls[2]>>

(***************************************************************************)
(* Properties of the name match, checked under SpecText.                   *)
(***************************************************************************)
\* the result of the call was kept
Kept == ret # <<>>

\* a letter, a digit or whitespace, as C7 words it
IsLetterDigitSpace(c) ==
    c \in Chars(AsciiLower) \cup Chars(AsciiUpper) \cup Chars(NonAsciiLetters)
          \cup Chars(Digits) \cup Whitespace

\* the normalization of C7: lower case, every other character stripped (taken out,
\* or made a space, as sep says), whitespace runs collapsed
ClaimedNormalize(s, sep) ==
    strip(collapse_ws(Cat([i \in 1..Len(s) |->
        IF IsLetterDigitSpace(Chr(s, i)) THEN LowerChar(Chr(s, i)) ELSE sep])))

ClaimedMatch(sep) ==
    IsSubstring(ClaimedNormalize(arg.full_name, sep), ClaimedNormalize(arg.title, sep))

\* C7: a result is kept only if the normalized name is a substring of the
\* normalized title, the normalization keeping letters, digits and whitespace
\* (under either reading of "stripped": taken out, or made a space).
C7_NameMatchRequired ==
    (pc = "return" /\ Kept) => (ClaimedMatch("") \/ ClaimedMatch(" "))

(***************************************************************************)
(* Properties of build_query, checked under SpecQuery.                     *)
(***************************************************************************)
PresentField(v) == Truthy(v) /\ strip(v.v) # ""

\* the quoted phrase of an optional field, or nothing; norm is what is done to
\* the text between the quotes
OptionalPhrase(v, norm(_)) == IF PresentField(v) THEN <<Quote(norm(v.v))>> ELSE <<>>

EmailTerm(v, norm(_)) == IF PresentField(v) THEN <<norm(v.v)>> ELSE <<>>

\* the terms of the query in the order C10 gives, joined by single spaces
ClaimedQuery(p, norm(_)) ==
    join(<<SiteTerm, Quote(norm(p.full_name.v))>>
         \o OptionalPhrase(p.company_or_university, norm)
         \o OptionalPhrase(p.title_or_role, norm)
         \o OptionalPhrase(p.location, norm)
         \o ExclusionTerms
         \o EmailTerm(p.email, norm))

\* C10 as claimed: the terms in their fixed order, each text trimmed.
C10_Original ==
    pc = "return" => ret = Return(ClaimedQuery(arg, strip))

\* a text trimmed, its whitespace runs collapsed
TrimCollapse(t) == collapse_ws(strip(t))

\* C10 as amended: the terms in their fixed order, each text trimmed and its
\* inner whitespace runs collapsed to one space.
C10_QueryTerms ==
    pc = "return" => ret = Return(ClaimedQuery(arg, TrimCollapse))

C10_Witness ==
    /\ pc = "return"
    /\ arg.full_name = Str("Al\tAl")
    /\ PresentField(arg.company_or_university) /\ PresentField(arg.title_or_role)
    /\ PresentField(arg.location) /\ PresentField(arg.email)
    /\ IsSubstring("\"Al Al\" \"IBM\" \"CTO\" \"Haifa\" -inurl", ret.v)

=============================================================================
